---------------------------- MODULE Spec2Model ----------------------------
(***************************************************************************)
(* img-time.py: set the date modified of image files to the capture time   *)
(* found in the file name or in the EXIF data.                             *)
(*                                                                         *)
(* The regular expressions, int() and the fixed-width EXIF parse are       *)
(* computed on the characters of a string: Chars(str) is the sequence of   *)
(* its one-character strings.  Times are whole seconds since the epoch; a  *)
(* modification time also carries a sub-second part, in 1/Ticks.           *)
(***************************************************************************)
EXTENDS Integers, Sequences, FiniteSets, TLC

(***************************************************************************)
(* Characters and int().                                                   *)
(***************************************************************************)

DigitVal ==
  ("0" :> 0) @@ ("1" :> 1) @@ ("2" :> 2) @@ ("3" :> 3) @@ ("4" :> 4) @@
  ("5" :> 5) @@ ("6" :> 6) @@ ("7" :> 7) @@ ("8" :> 8) @@ ("9" :> 9)

DigitChar == <<"0", "1", "2", "3", "4", "5", "6", "7", "8", "9">>

IsDigit(c) == c \in DOMAIN DigitVal

RECURSIVE DigitsValue(_)
\* The value of a non-empty string of decimal digits.
DigitsValue(s) ==
  IF Len(s) = 0 THEN 0
  ELSE 10 * DigitsValue(SubSeq(s, 1, Len(s) - 1)) + DigitVal[s[Len(s)]]

RECURSIVE Strip(_)
\* str.strip() as int() applies it: blanks at both ends are dropped.
Strip(s) ==
  IF Len(s) > 0 /\ s[1] = " " THEN Strip(Tail(s))
  ELSE IF Len(s) > 0 /\ s[Len(s)] = " " THEN Strip(SubSeq(s, 1, Len(s) - 1))
  ELSE s

\* int(s): blanks around, an optional sign, then digits; anything else is a
\* ValueError.
IntOf(s) ==
  LET t == Strip(s)
      signed == Len(t) > 0 /\ t[1] \in {"+", "-"}
      d == IF signed THEN Tail(t) ELSE t
  IN IF Len(d) > 0 /\ \A k \in 1..Len(d) : IsDigit(d[k])
     THEN [ok |-> TRUE,
           val |-> IF signed /\ t[1] = "-" THEN 0 - DigitsValue(d)
                   ELSE DigitsValue(d)]
     ELSE [ok |-> FALSE, val |-> 0]

D2(n) == <<DigitChar[((n \div 10) % 10) + 1], DigitChar[(n % 10) + 1]>>

D4(n) == D2(n \div 100) \o D2(n % 100)

\* os.path.split(path)[1]: what follows the last slash.
Basename(path) ==
  LET slashes == {k \in 1..Len(path) : path[k] = "/"}
  IN IF slashes = {} THEN path
     ELSE LET last == CHOOSE k \in slashes : \A j \in slashes : j <= k
          IN SubSeq(path, last + 1, Len(path))

(***************************************************************************)
(* The regular expressions: NAME_FORMATS and IGNORE_FORMATS.               *)
(* A format is the set of its templates, one per combination of its        *)
(* alternatives; in a template "\\d" is the digit class, "(" and ")" are   *)
(* the group marks, and any other element is that literal character.       *)
(***************************************************************************)

Dd == <<"\\d", "\\d">>

YearGroup == <<"(", "2", "0", "\\d", "\\d", ")">>

G2 == <<"(">> \o Dd \o <<")">>

Templates(prefixes, body, suffixes) ==
  {p \o body \o s : p \in prefixes, s \in suffixes}

JpgOrMp4 == {<<".", "j", "p", "g">>, <<".", "m", "p", "4">>}

JpgOrPng == {<<".", "j", "p", "g">>, <<".", "p", "n", "g">>}

NAME_FORMATS == <<
  \* Samsung Galaxy S2 camera
  Templates({<<"I", "M", "G", "_">>, <<"V", "I", "D", "_">>,
             <<"P", "A", "N", "O", "_">>},
            YearGroup \o G2 \o G2 \o <<"_">> \o G2 \o G2 \o G2, JpgOrMp4),
  \* Ubuntu screenshot automatic filenames
  Templates({<<"S", "c", "r", "e", "e", "n", "s", "h", "o", "t", " ",
               "f", "r", "o", "m", " ">>},
            YearGroup \o <<"-">> \o G2 \o <<"-">> \o G2 \o <<" ">> \o G2
              \o <<":">> \o G2 \o <<":">> \o G2, JpgOrPng),
  \* Ubuntu cheese webcam automatic filenames
  Templates({<< >>},
            YearGroup \o <<"-">> \o G2 \o <<"-">> \o G2 \o <<"-">> \o G2
              \o G2 \o G2, {<<".", "j", "p", "g">>}),
  Templates({<< >>},
            YearGroup \o G2 \o G2 \o <<"_">> \o G2 \o G2 \o G2, JpgOrMp4),
  Templates({<<"C", "3", "6", "0", "_">>},
            YearGroup \o <<"-">> \o G2 \o <<"-">> \o G2 \o <<"-">> \o G2
              \o <<"-">> \o G2 \o <<"-">> \o G2 \o <<"-">> \o Dd \o <<"\\d">>,
            {<<".", "j", "p", "g">>}) >>

IGNORE_FORMATS == <<
  Templates({<< >>}, Dd \o Dd \o <<"\\d">>, {<<".", "M", "T", "S">>}),
  Templates({<<"H", "P", "I", "M">>}, Dd \o Dd, {<<".", "j", "p", "g">>}),
  Templates({<<"P">>}, Dd \o Dd \o Dd,
            {<<".", "J", "P", "G">>, <<".", "M", "O", "V">>,
             <<"\\d", ".", "J", "P", "G">>, <<"\\d", ".", "M", "O", "V">>}) >>

IsMark(e) == e \in {"(", ")"}

RECURSIVE MatchFrom(_, _, _, _)
\* The template from element j on matches the name from character pos on, up to
\* the end of the name ("$" also matches before one final newline).
MatchFrom(name, pos, tpl, j) ==
  IF j > Len(tpl)
  THEN pos > Len(name) \/ (pos = Len(name) /\ name[pos] = "\n")
  ELSE IF IsMark(tpl[j]) THEN MatchFrom(name, pos, tpl, j + 1)
  ELSE /\ pos <= Len(name)
       /\ IF tpl[j] = "\\d" THEN IsDigit(name[pos]) ELSE name[pos] = tpl[j]
       /\ MatchFrom(name, pos + 1, tpl, j + 1)

RECURSIVE GroupLen(_, _)
\* The number of elements from element j of the template to the next ")".
GroupLen(tpl, j) == IF tpl[j] = ")" THEN 0 ELSE 1 + GroupLen(tpl, j + 1)

RECURSIVE Groups(_, _, _, _)
\* match.group(1), match.group(2), ... of a name the template matches.
Groups(name, pos, tpl, j) ==
  IF j > Len(tpl) THEN << >>
  ELSE IF tpl[j] = "("
  THEN LET n == GroupLen(tpl, j + 1)
       IN <<SubSeq(name, pos, pos + n - 1)>> \o Groups(name, pos + n, tpl, j + n + 2)
  ELSE Groups(name, pos + 1, tpl, j + 1)

\* re.search(name_format, image_name): <<the template that matches>>, or << >>
\* for no match.
Search(format, name) ==
  LET m == {tpl \in format : MatchFrom(name, 1, tpl, 1)}
  IN IF m = {} THEN << >> ELSE <<CHOOSE tpl \in m : TRUE>>

(***************************************************************************)
(* datetime.datetime(...), time.mktime and the timestamps.                 *)
(* A timestamp is [s |-> whole seconds, q |-> the part of a second, in     *)
(* 1/Ticks]; an optional one is << >> (None) or <<timestamp>>.             *)
(***************************************************************************)

Ticks == 4

\* The local time zone of time.mktime, in seconds east of UTC (the zone in
\* which MIN_DATE is "Jan 1, 1995"); daylight saving is left out.
UtcOffset == -18000

MIN_DATE == 788936400

WEEK == 60 * 60 * 24 * 7

Ts(sec) == [s |-> sec, q |-> 0]

IsLeap(y) == (y % 4 = 0 /\ y % 100 # 0) \/ y % 400 = 0

DaysInMonth(y, m) ==
  IF m = 2 THEN (IF IsLeap(y) THEN 29 ELSE 28)
  ELSE IF m \in {4, 6, 9, 11} THEN 30 ELSE 31

\* datetime.datetime(year, month, day, hour, minute, second) raises ValueError
\* unless this holds.
ValidDateTime(f) ==
  /\ f[1] \in 1..9999
  /\ f[2] \in 1..12
  /\ f[3] \in 1..DaysInMonth(f[1], f[2])
  /\ f[4] \in 0..23
  /\ f[5] \in 0..59
  /\ f[6] \in 0..59

\* Days from 1970-01-01 to the date, in the proleptic Gregorian calendar.
DaysFromCivil(y, m, d) ==
  LET yy == IF m <= 2 THEN y - 1 ELSE y
      era == yy \div 400
      yoe == yy - era * 400
      mp == IF m > 2 THEN m - 3 ELSE m + 9
      doy == ((153 * mp + 2) \div 5) + d - 1
      doe == yoe * 365 + (yoe \div 4) - (yoe \div 100) + doy
  IN era * 146097 + doe - 719468

\* time.mktime(dt.timetuple()): the local calendar time as epoch seconds.
Mktime(f) ==
  Ts(DaysFromCivil(f[1], f[2], f[3]) * 86400 + f[4] * 3600 + f[5] * 60 + f[6]
     - UtcOffset)

\* if title_time: None and 0.0 are false.
Truthy(t) == t # << >> /\ t[1] # Ts(0)

Before(a, b) == a.s < b.s \/ (a.s = b.s /\ a.q < b.q)

\* MAX_DATE = time.time() + 60*60*24*7, for the clock reading t.
MAX_DATE(t) == Ts(t + WEEK)

LogRec(level, msg, text) == [level |-> level, msg |-> msg, text |-> text]

\* The levels of the logging module.
Severity == ("INFO" :> 20) @@ ("WARNING" :> 30) @@ ("ERROR" :> 40) @@
            ("CRITICAL" :> 50)

\* The level of logging.basicConfig: --quiet, --verbose, or neither.
LogLevels == {"CRITICAL", "INFO", "WARNING"}

IsShown(rec, loglevel) == Severity[rec.level] >= Severity[loglevel]

\* The records a logger of the level writes to stderr.
Shown(records, loglevel) ==
  SelectSeq(records, LAMBDA rec : IsShown(rec, loglevel))

\* valid_timestamp(timestamp, description): [ok, log].
valid_timestamp(t, timestamp, description) ==
  IF Before(timestamp, Ts(MIN_DATE)) \/ Before(MAX_DATE(t), timestamp)
  THEN [ok |-> FALSE,
        log |-> <<LogRec("ERROR", "Warning: Invalid", description)>>]
  ELSE [ok |-> TRUE, log |-> << >>]

\* The six ints of a datetime call: << >> when one int() raises ValueError.
Fields(strs) ==
  IF \A k \in 1..6 : IntOf(strs[k]).ok
  THEN <<[k \in 1..6 |-> IntOf(strs[k]).val]>>
  ELSE << >>

\* parse_time_str(time_str), on the characters c of time_str: [time, log].
parse_time_chars(time_str, c) ==
  IF Len(c) # 19
  THEN [time |-> << >>,
        log |-> <<LogRec("INFO", "Warning: Invalid EXIF time string length",
                         time_str)>>]
  ELSE LET f == Fields(<<SubSeq(c, 1, 4), SubSeq(c, 6, 7), SubSeq(c, 9, 10),
                         SubSeq(c, 12, 13), SubSeq(c, 15, 16),
                         SubSeq(c, 18, 19)>>)
       IN IF f = << >> \/ ~ValidDateTime(f[1])
          THEN [time |-> << >>,
                log |-> <<LogRec("INFO", "Warning: Invalid EXIF time string",
                                 time_str)>>]
          ELSE [time |-> <<Mktime(f[1])>>, log |-> << >>]

(***************************************************************************)
(* The comparison with the date modified (main, lines 115-117).            *)
(***************************************************************************)

\* round(x) of a non-negative n/d: Python 2 rounds a half away from zero.
Round(n, d) == (2 * n + d) \div (2 * d)

Abs(x) == IF x < 0 THEN 0 - x ELSE x

\* int(round(abs(title_time - mod_time)))
TimeDiff(title_time, mod_time) ==
  Round(Abs((title_time.s - mod_time.s) * Ticks + (title_time.q - mod_time.q)),
        Ticks)

\* A variant of TzDiff: time_diff/60/60 as the division of two ints without
\* "from __future__ import division", which drops the fraction.
TzDiffTruncated(time_diff) ==
  Abs(time_diff - (time_diff \div (60 * 60)) * 60 * 60)

\* abs(time_diff - round(time_diff/60/60)*60*60)
TzDiff(time_diff) == Abs(time_diff - Round(time_diff, 60 * 60) * 60 * 60)

\* A variant of Discrepancy: ">=" for ">".
DiscrepancyInclusive(time_diff, tz_diff, args) ==
  time_diff >= args.max_diff /\ tz_diff >= args.max_tz_diff

\* time_diff > args.max_diff and tz_diff >= args.max_tz_diff
Discrepancy(time_diff, tz_diff, args) ==
  time_diff > args.max_diff /\ tz_diff >= args.max_tz_diff

(***************************************************************************)
(* The files of the model.                                                 *)
(***************************************************************************)

MaxFiles == 2

Jpg == <<".", "j", "p", "g">>

N_img == "IMG_20140310_153045.jpg"

\* The shape of a name format, month 13 and hour 25.
N_bad == "IMG_20141310_253045.jpg"

\* A time after MAX_DATE.
N_fut == "20300101_000000.mp4"

\* A name of IGNORE_FORMATS.
N_ign == "HPIM1234.jpg"

\* A name of no format.
N_unk == "a.jpg"

P_sub == "sub/IMG_20140310_153045.jpg"

Paths == {N_img, P_sub, N_bad, N_fut, N_ign, N_unk}

E_good == "2013:07:04 09:08:07"

E_month13 == "2013:13:04 09:08:07"

E_1990 == "1990:07:04 09:08:07"

E_short == "2013:07"

ImgChars(y, mo, d, h, mi, sec) ==
  <<"I", "M", "G", "_">> \o D4(y) \o D2(mo) \o D2(d) \o <<"_">>
    \o D2(h) \o D2(mi) \o D2(sec) \o Jpg

ExifChars(y, mo, d, h, mi, sec) ==
  D4(y) \o <<":">> \o D2(mo) \o <<":">> \o D2(d) \o <<" ">> \o D2(h)
    \o <<":">> \o D2(mi) \o <<":">> \o D2(sec)

\* The characters of the strings of the model.
Spelling ==
  (N_img :> ImgChars(2014, 3, 10, 15, 30, 45)) @@
  (P_sub :> <<"s", "u", "b", "/">> \o ImgChars(2014, 3, 10, 15, 30, 45)) @@
  (N_bad :> ImgChars(2014, 13, 10, 25, 30, 45)) @@
  (N_fut :> D4(2030) \o D2(1) \o D2(1) \o <<"_">> \o D2(0) \o D2(0) \o D2(0)
              \o <<".", "m", "p", "4">>) @@
  (N_ign :> <<"H", "P", "I", "M", "1", "2", "3", "4">> \o Jpg) @@
  (N_unk :> <<"a">> \o Jpg) @@
  (E_good :> ExifChars(2013, 7, 4, 9, 8, 7)) @@
  (E_month13 :> ExifChars(2013, 13, 4, 9, 8, 7)) @@
  (E_1990 :> ExifChars(1990, 7, 4, 9, 8, 7)) @@
  (E_short :> D4(2013) \o <<":">> \o D2(7))

Chars(str) == Spelling[str]

Str(chars) == CHOOSE str \in DOMAIN Spelling : Spelling[str] = chars

\* The time in the name N_img, and the time in the EXIF data of the model.
T_img == Mktime(<<2014, 3, 10, 15, 30, 45>>).s

T_exif == Mktime(<<2013, 7, 4, 9, 8, 7>>).s

\* os.path.split(image_path)[1]
Split1(image_path) == Str(Basename(Chars(image_path)))

\* parse_time_str(time_str): [time, log].
parse_time_str(time_str) == parse_time_chars(time_str, Chars(time_str))

Names == {Split1(p) : p \in Paths}

ExifStrings == {E_good, E_month13, E_1990, E_short}

RECURSIVE FirstMatch(_, _)
\* The loop of lines 85-87 from format k on: <<the template of the first format
\* that matches>>, or << >>.
FirstMatch(image_name, k) ==
  IF k > Len(NAME_FORMATS) THEN << >>
  ELSE LET m == Search(NAME_FORMATS[k], image_name)
       IN IF m # << >> THEN m ELSE FirstMatch(image_name, k + 1)

\* The result of lines 84-95: the time in the file name, << >> when no format
\* matches; raised when datetime.datetime refuses the fields of the first
\* format that matches.
FilenameTime(image_name) ==
  LET m == FirstMatch(image_name, 1)
  IN IF m = << >> THEN [raised |-> FALSE, time |-> << >>]
     ELSE LET f == Fields(Groups(image_name, 1, m[1], 1))
          IN IF f = << >> \/ ~ValidDateTime(f[1])
             THEN [raised |-> TRUE, time |-> << >>]
             ELSE [raised |-> FALSE, time |-> <<Mktime(f[1])>>]

\* Lines 104-107
Recognized(image_name) ==
  \E k \in DOMAIN IGNORE_FORMATS : Search(IGNORE_FORMATS[k], image_name) # << >>

(***************************************************************************)
(* The results of the string functions for the strings of the model, each  *)
(* computed once: the function applied to a string is looked up here.      *)
(***************************************************************************)

SplitOf == [p \in Paths |-> Split1(p)]

FilenameTimeOf == [n \in Names |-> FilenameTime(Chars(n))]

RecognizedOf == [n \in Names |-> Recognized(Chars(n))]

ParseOf == [e \in ExifStrings |-> parse_time_str(e)]

File(mtime, exif) == [mtime |-> mtime, atime |-> mtime, exif |-> exif]

\* The states a file at the path may start in.
Choices(path) ==
  IF path = N_img
  THEN {File(m, <<E_good>>) :
          m \in {Ts(T_img), [s |-> T_img + 3661, q |-> 2], Ts(MIN_DATE - 1)}}
  ELSE IF path = P_sub
  THEN {File(m, << >>) : m \in {[s |-> T_img - 7322, q |-> 1], Ts(MIN_DATE - 1)}}
  ELSE IF path \in {N_bad, N_fut}
  THEN {File(Ts(T_img), << >>)}
  ELSE IF path = N_ign
  THEN {File(Ts(T_img), e) : e \in {<< >>, <<E_short>>}}
  ELSE {File([s |-> T_exif + 30, q |-> 1], e) :
          e \in {<< >>, <<E_good>>, <<E_month13>>, <<E_1990>>}}
       \cup {File(Ts(T_exif + 3661), <<E_good>>)}

\* The paths at which there may be no file.
MayBeMissing == {N_img}

RECURSIVE Lists(_)
\* The lists of at most n paths.
Lists(n) ==
  IF n = 0 THEN {<< >>}
  ELSE Lists(n - 1) \cup
       {Append(l, p) : l \in {x \in Lists(n - 1) : Len(x) = n - 1}, p \in Paths}

Range(seq) == {seq[k] : k \in DOMAIN seq}

RECURSIVE Filesystems(_)
\* The filesystems with files at the paths, each in one of its states.
Filesystems(paths) ==
  IF paths = {} THEN {<< >>}
  ELSE LET p == CHOOSE x \in paths : TRUE
           rest == Filesystems(paths \ {p})
       IN {(p :> c) @@ f : f \in rest, c \in Choices(p)}
          \cup (IF p \in MayBeMissing THEN rest ELSE {})

\* The time of the first run: 2014-04-01 12:00:00.
Now0 == Mktime(<<2014, 4, 1, 12, 0, 0>>).s

(***************************************************************************)
(* The state.                                                              *)
(***************************************************************************)

VARIABLES
  images,       \* args.images
  no_edit,      \* args.no_edit
  max_diff,     \* args.max_diff
  max_tz_diff,  \* args.max_tz_diff
  exifread,     \* whether the exifread module was imported
  now,          \* time.time() when the module was loaded
  fs,           \* the filesystem: path -> [mtime, atime, exif]
  i,            \* the position of the loop in args.images
  status,       \* "running", "exited", or "crashed" by an exception
  out,          \* the lines printed on stdout
  log,          \* the calls of logging.error and logging.info
  trail,        \* history: what each iteration of the loop did
  fs0,          \* history: the filesystem before the first run
  first,        \* history: the first run, once a second run has started
  second        \* "none", or how the second run relates to the first

vars ==
  <<images, no_edit, max_diff, max_tz_diff, exifread, now, fs, i, status,
    out, log, trail, fs0, first, second>>

OPT_DEFAULTS == [max_diff |-> 60, max_tz_diff |-> 60]

Tolerances == {OPT_DEFAULTS, [max_diff |-> 0, max_tz_diff |-> 0]}

(***************************************************************************)
(* One iteration of the loop of main (lines 79-122).                       *)
(***************************************************************************)

\* A variant of get_exif_time: the missing tag is logged with logging.error.
get_exif_time_error(image_path, file) ==
  IF file.exif # << >>
  THEN ParseOf[file.exif[1]]
  ELSE [time |-> << >>,
        log |-> <<LogRec("ERROR", "Warning: did not find EXIF tag", image_path)>>]

\* get_exif_time(image_path) on a file whose EXIF DateTimeOriginal tag is
\* file.exif (<< >> when the file has no such tag): [time, log].
get_exif_time(image_path, file) ==
  IF file.exif # << >>
  THEN ParseOf[file.exif[1]]
  ELSE [time |-> << >>,
        log |-> <<LogRec("INFO", "Warning: did not find EXIF tag", image_path)>>]

\* A variant of UseExif: "if exifread", without "not title_time".
UseExifAlways(title_time) == exifread

\* Line 99: whether the EXIF data is read.
UseExif(title_time) == ~Truthy(title_time) /\ exifread

\* Line 112: the path whose date modified is read.
MtimePath(image_path, image_name) == image_name

\* A variant of Edits: os.utime without "if not args.no_edit".
EditsAlways == TRUE

\* Line 120: whether the date modified is corrected.
Edits == ~no_edit

\* What an iteration did, before it has done anything; own is the date
\* modified of the file at image_path when the iteration starts.
Blank(image_path) ==
  [kind |-> "", path |-> image_path, name |-> SplitOf[image_path],
   own |-> IF image_path \in DOMAIN fs THEN <<fs[image_path].mtime>> ELSE << >>,
   title |-> << >>, source |-> "none", exif_called |-> FALSE, mod |-> << >>,
   time_diff |-> 0, tz_diff |-> 0, log |-> << >>, out |-> << >>,
   utime |-> FALSE]

\* Lines 115-122, with r.time_diff and tz_diff computed.
Decide(r, tz_diff) ==
  IF Discrepancy(r.time_diff, tz_diff,
                 [max_diff |-> max_diff, max_tz_diff |-> max_tz_diff])
  THEN [r EXCEPT !.kind = "discrepancy", !.tz_diff = tz_diff,
                 !.out = <<[name |-> r.name, seconds |-> r.time_diff]>>,
                 !.utime = Edits]
  ELSE [r EXCEPT !.kind = "no discrepancy", !.tz_diff = tz_diff]

\* Lines 113-122, with the date modified read.
Compare(r, mod_time) ==
  IF ~valid_timestamp(now, mod_time, "date modified").ok
  THEN [r EXCEPT !.kind = "invalid mtime", !.mod = <<mod_time>>,
                 !.log = @ \o valid_timestamp(now, mod_time, "date modified").log]
  ELSE Decide([r EXCEPT !.mod = <<mod_time>>,
                        !.time_diff = TimeDiff(r.title[1], mod_time)],
              TzDiff(TimeDiff(r.title[1], mod_time)))

\* Lines 103-122, with r.title the title_time.
WithTime(r) ==
  IF ~Truthy(r.title)
  THEN [r EXCEPT
          !.kind = "no time", !.source = "none",
          !.log = @ \o
                  (IF RecognizedOf[r.name] THEN << >>
                   ELSE <<LogRec("ERROR", "Unrecognized name format & no EXIF: ",
                                 r.name)>>)]
  ELSE IF MtimePath(r.path, r.name) \notin DOMAIN fs
  THEN [r EXCEPT !.kind = "OSError"]
  ELSE Compare(r, fs[MtimePath(r.path, r.name)].mtime)

\* Lines 100-122, with ex the result of get_exif_time.
FromExif(r, ex) ==
  IF Truthy(ex.time) /\ ~valid_timestamp(now, ex.time[1], "EXIF timestamp").ok
  THEN [r EXCEPT
          !.kind = "invalid time", !.title = ex.time, !.source = "EXIF",
          !.log = ex.log \o valid_timestamp(now, ex.time[1], "EXIF timestamp").log]
  ELSE WithTime([r EXCEPT !.title = ex.time, !.source = "EXIF", !.log = ex.log])

\* Lines 88-122, with ft the outcome of the loop over NAME_FORMATS.
FromFilename(r, ft) ==
  IF ft.raised
  THEN [r EXCEPT !.kind = "ValueError"]
  ELSE IF Truthy(ft.time)
          /\ ~valid_timestamp(now, ft.time[1], "filename timestamp").ok
  THEN [r EXCEPT
          !.kind = "invalid time", !.title = ft.time, !.source = "filename",
          !.log = valid_timestamp(now, ft.time[1], "filename timestamp").log]
  ELSE IF UseExif(ft.time)
  THEN FromExif([r EXCEPT !.exif_called = TRUE],
                get_exif_time(r.path, fs[r.path]))
  ELSE WithTime([r EXCEPT !.title = ft.time,
                          !.source = IF Truthy(ft.time) THEN "filename"
                                     ELSE "none"])

\* What the iteration for image_path does, from the state it starts in.
Iteration(image_path) ==
  IF image_path \notin DOMAIN fs
  THEN [Blank(image_path) EXCEPT !.kind = "missing"]
  ELSE FromFilename(Blank(image_path), FilenameTimeOf[SplitOf[image_path]])

\* os.utime(image_path, (title_time, title_time))
Utime(files, path, time) ==
  [files EXCEPT ![path] = [@ EXCEPT !.mtime = time, !.atime = time]]

Raises(r) == r.kind \in {"ValueError", "OSError"}

\* The loop has an entry of args.images to go on with.
InLoop == status = "running" /\ i <= Len(images)

\* The effects of the iteration r: what it printed, logged and wrote; an
\* exception ends the program.
Iterate(r) ==
  /\ fs' = IF r.utime THEN Utime(fs, r.path, r.title[1]) ELSE fs
  /\ out' = out \o r.out
  /\ log' = log \o r.log
  /\ trail' = Append(trail, r)
  /\ status' = IF Raises(r) THEN "crashed" ELSE status
  /\ i' = IF Raises(r) THEN i ELSE i + 1
  /\ UNCHANGED <<images, no_edit, max_diff, max_tz_diff, exifread, now, fs0,
                 first, second>>

\* Line 80: not a file.
SkipMissing ==
  /\ InLoop
  /\ Iteration(images[i]).kind = "missing"
  /\ Iterate(Iteration(images[i]))

\* Lines 88-93: datetime.datetime raises ValueError, which nothing catches.
RaiseValueError ==
  /\ InLoop
  /\ Iteration(images[i]).kind = "ValueError"
  /\ Iterate(Iteration(images[i]))

\* Lines 96-97 and 101-102: the time found is not a valid timestamp.
SkipInvalidTime ==
  /\ InLoop
  /\ Iteration(images[i]).kind = "invalid time"
  /\ Iterate(Iteration(images[i]))

\* Lines 103-110: no time in the name or in the EXIF data.
SkipNoTime ==
  /\ InLoop
  /\ Iteration(images[i]).kind = "no time"
  /\ Iterate(Iteration(images[i]))

\* Line 112: os.path.getmtime raises OSError, which nothing catches.
RaiseOSError ==
  /\ InLoop
  /\ Iteration(images[i]).kind = "OSError"
  /\ Iterate(Iteration(images[i]))

\* Lines 113-114: the date modified is not a valid timestamp.
SkipInvalidMtime ==
  /\ InLoop
  /\ Iteration(images[i]).kind = "invalid mtime"
  /\ Iterate(Iteration(images[i]))

\* Line 117, false.
NoDiscrepancy ==
  /\ InLoop
  /\ Iteration(images[i]).kind = "no discrepancy"
  /\ Iterate(Iteration(images[i]))

\* Lines 117-122: the discrepancy is printed and, unless --no-edit, corrected.
ReportDiscrepancy ==
  /\ InLoop
  /\ Iteration(images[i]).kind = "discrepancy"
  /\ Iterate(Iteration(images[i]))

\* The loop is over and main returns.
Exit ==
  /\ status = "running"
  /\ i > Len(images)
  /\ status' = "exited"
  /\ UNCHANGED <<images, no_edit, max_diff, max_tz_diff, exifread, now, fs, i,
                 out, log, trail, fs0, first, second>>

(***************************************************************************)
(* A second run of the program, to compare with the first.                 *)
(***************************************************************************)

Elapsed == 24 * 60 * 60

Ended == status \in {"exited", "crashed"}

FirstRun ==
  [images |-> images, no_edit |-> no_edit, fs |-> fs, out |-> out,
   log |-> log, trail |-> trail, status |-> status]

NoRun ==
  [images |-> << >>, no_edit |-> FALSE, fs |-> << >>, out |-> << >>,
   log |-> << >>, trail |-> << >>, status |-> "none"]

Restart(how) ==
  /\ second = "none"
  /\ Ended
  /\ first' = FirstRun
  /\ second' = how
  /\ i' = 1
  /\ status' = "running"
  /\ out' = << >>
  /\ log' = << >>
  /\ trail' = << >>
  /\ UNCHANGED <<max_diff, max_tz_diff, exifread, fs0>>

\* The same command again, later, on the files as the first run left them.
RunAgain ==
  /\ Restart("again")
  /\ now' = now + Elapsed
  /\ UNCHANGED <<images, no_edit, fs>>

\* The same command with --no-edit switched, on the files as they were
\* before the first run.
RunOtherMode ==
  /\ Restart("other mode")
  /\ no_edit' = ~no_edit
  /\ fs' = fs0
  /\ UNCHANGED <<images, now>>

\* The same command with the files in another order, on the files as they
\* were before the first run.
RunReordered ==
  /\ Restart("reordered")
  /\ \E perm \in Permutations(DOMAIN images) :
       /\ images' = [k \in DOMAIN images |-> images[perm[k]]]
       /\ images' # images
  /\ fs' = fs0
  /\ UNCHANGED <<no_edit, now>>

Init ==
  /\ images \in Lists(MaxFiles) \ {<< >>}
  /\ no_edit = FALSE
  /\ \E t \in Tolerances : max_diff = t.max_diff /\ max_tz_diff = t.max_tz_diff
  /\ exifread \in BOOLEAN
  /\ now = Now0
  /\ fs \in Filesystems(Range(images) \cup {SplitOf[p] : p \in Range(images)})
  /\ i = 1
  /\ status = "running"
  /\ out = << >>
  /\ log = << >>
  /\ trail = << >>
  /\ fs0 = fs
  /\ first = NoRun
  /\ second = "none"

Next ==
  \/ SkipMissing
  \/ RaiseValueError
  \/ SkipInvalidTime
  \/ SkipNoTime
  \/ RaiseOSError
  \/ SkipInvalidMtime
  \/ NoDiscrepancy
  \/ ReportDiscrepancy
  \/ Exit
  \/ RunAgain
  \/ RunOtherMode
  \/ RunReordered

Spec == Init /\ [][Next]_vars

(***************************************************************************)
(* The comparison alone: one file, named by its bare name, whose name      *)
(* holds the time T_img and whose date modified is up to MaxEarly seconds  *)
(* before it or up to MaxDiff seconds after it.                            *)
(***************************************************************************)

MaxEarly == 1900

MaxDiff == 3700

EvalTolerances ==
  {OPT_DEFAULTS, [max_diff |-> 0, max_tz_diff |-> 0],
   [max_diff |-> 60, max_tz_diff |-> 1801]}

InitEval ==
  /\ images = <<N_img>>
  /\ no_edit = FALSE
  /\ \E t \in EvalTolerances : max_diff = t.max_diff /\ max_tz_diff = t.max_tz_diff
  /\ exifread = FALSE
  /\ now = Now0
  /\ \E d \in (0 - MaxEarly)..MaxDiff, q \in 0..(Ticks - 1) :
       fs = (N_img :> File([s |-> T_img + d, q |-> q], << >>))
  /\ i = 1
  /\ status = "running"
  /\ out = << >>
  /\ log = << >>
  /\ trail = << >>
  /\ fs0 = fs
  /\ first = NoRun
  /\ second = "none"

NextEval ==
  \/ NoDiscrepancy
  \/ ReportDiscrepancy
  \/ Exit

SpecEval == InitEval /\ [][NextEval]_vars

(***************************************************************************)
(* The properties.                                                         *)
(***************************************************************************)

\* The iterations so far that reached the comparison of line 117.
Evaluated ==
  {k \in DOMAIN trail : trail[k].kind \in {"discrepancy", "no discrepancy"}}

\* |title_time - mod_time| to the nearest whole second, a half upwards.
DiffOf(r) ==
  LET n == Abs((r.title[1].s - r.mod[1].s) * Ticks + (r.title[1].q - r.mod[1].q))
  IN (n \div Ticks) + (IF 2 * (n % Ticks) >= Ticks THEN 1 ELSE 0)

\* The distance of diff from the nearest whole number of hours.
SlackOf(diff) ==
  IF diff % 3600 <= 3600 - (diff % 3600) THEN diff % 3600
  ELSE 3600 - (diff % 3600)

Defaults == max_diff = 60 /\ max_tz_diff = 60

\* C1: every iteration that compares a validated title time with a validated
\* date modified reports a discrepancy exactly when diff > max_diff and
\* tz_slack >= max_tz_diff, diff being the difference rounded to whole
\* seconds and tz_slack the distance of diff from the nearest whole number of
\* hours; with the defaults, diff 3600 is not reported, 3661 is, and 30 is not.
C1_Decision ==
  \A k \in Evaluated :
    LET r == trail[k]
        diff == DiffOf(r)
        reported == r.kind = "discrepancy"
    IN /\ r.time_diff = diff
       /\ reported <=> (diff > max_diff /\ SlackOf(diff) >= max_tz_diff)
       /\ Defaults /\ diff = 3600 => ~reported
       /\ Defaults /\ diff = 3661 => reported
       /\ Defaults /\ diff = 30 => ~reported

\* With the defaults, a difference of 3661 seconds has been reported.
C1_Witness ==
  /\ Defaults
  /\ \E k \in Evaluated :
       trail[k].kind = "discrepancy" /\ DiffOf(trail[k]) = 3661
       /\ out = <<[name |-> N_img, seconds |-> 3661]>>

\* C10: in every comparison tz_diff lies in 0..1800; when the difference is a
\* whole number of hours and a half, tz_diff is 1800 whether the half is
\* rounded up or down, so the decision is the same under both; and a
\* max_tz_diff above 1800 lets no discrepancy be reported.
C10_Slack ==
  \A k \in Evaluated :
    LET r == trail[k]
        d == r.time_diff
        up == Abs(d - ((d \div 3600) + 1) * 3600)
        down == Abs(d - (d \div 3600) * 3600)
    IN /\ r.tz_diff \in 0..1800
       /\ d % 3600 = 1800 =>
            /\ r.tz_diff = 1800 /\ up = 1800 /\ down = 1800
            /\ (r.kind = "discrepancy") <=>
                 (d > max_diff /\ down >= max_tz_diff)
       /\ max_tz_diff > 1800 => r.kind # "discrepancy"

\* A difference of half an hour has been compared and reported.
C10_Witness ==
  \E k \in Evaluated :
    /\ trail[k].time_diff = 1800
    /\ trail[k].tz_diff = 1800
    /\ trail[k].kind = "discrepancy"

\* The paths for which the iterations of t reported a discrepancy.
ReportedPaths(t) ==
  {t[k].path : k \in {j \in DOMAIN t : t[j].kind = "discrepancy"}}

\* The paths whose date modified the iterations of t corrected.
CorrectedPaths(t) == {t[k].path : k \in {j \in DOMAIN t : t[j].utime}}

\* C2: a path for which a run without --no-edit reported and corrected a
\* discrepancy gets no discrepancy reported by the same command run again.
C2_Idempotent ==
  second = "again" =>
    \A k \in DOMAIN trail :
      trail[k].path \in CorrectedPaths(first.trail) =>
        trail[k].kind # "discrepancy"

\* No access or modification time differs from what it was before the runs.
TimesUntouched ==
  \A p \in DOMAIN fs : fs[p].mtime = fs0[p].mtime /\ fs[p].atime = fs0[p].atime

\* No two entries of args.images have the same bare name.
DistinctNames ==
  \A j, k \in DOMAIN images : j # k => SplitOf[images[j]] # SplitOf[images[k]]

MatchingNames ==
  {n \in Names : FilenameTimeOf[n].raised \/ FilenameTimeOf[n].time # << >>}

\* C4: for a file whose name matches a format of NAME_FORMATS the EXIF data is
\* never read, the time compared with the date modified and written by the
\* correction is the time in the name, whatever the EXIF data holds; the EXIF
\* data is read only when the name gave no time.
C4_FilenameFirst ==
  /\ \A k \in DOMAIN trail :
       LET r == trail[k]
           ft == FilenameTimeOf[r.name]
       IN /\ r.name \in MatchingNames =>
               /\ ~r.exif_called
               /\ k \in Evaluated => r.title = ft.time /\ r.source = "filename"
          /\ r.exif_called => ft.time = << >> /\ ~ft.raised
  /\ trail # << >> =>
       LET r == trail[Len(trail)]
       IN r.utime /\ r.name \in MatchingNames =>
            /\ fs[r.path].mtime = FilenameTimeOf[r.name].time[1]
            /\ fs[r.path].atime = FilenameTimeOf[r.name].time[1]

\* A file whose name holds one time and whose EXIF data holds another, with
\* exifread installed, has just been corrected to the time in its name.
C4_Witness ==
  /\ exifread /\ second = "none" /\ Len(trail) = 1
  /\ trail[1].path = N_img /\ trail[1].utime
  /\ fs0[N_img].exif = <<E_good>> /\ ParseOf[E_good].time = <<Ts(T_exif)>>
  /\ T_exif # T_img
  /\ fs[N_img].mtime = Ts(T_img) /\ fs0[N_img].mtime # Ts(T_img)

\* The names that match a format whose fields datetime.datetime refuses.
MalformedNames == {n \in Names : FilenameTimeOf[n].raised}

\* C5: a name that matches a format of NAME_FORMATS with fields that are no
\* calendar date and time raises no exception and goes on like a name that
\* matches no format: to the EXIF data, then to IGNORE_FORMATS.
C5_MalformedLikeUnmatched ==
  \A k \in DOMAIN trail :
    trail[k].name \in MalformedNames =>
      /\ ~Raises(trail[k])
      /\ exifread => trail[k].exif_called
      /\ status # "crashed"

\* C6: no file of the list aborts the run: the program never ends by an
\* exception, and when it ends every entry of the list has had its iteration.
C6_WholeList ==
  /\ status # "crashed"
  /\ status = "exited" => Len(trail) = Len(images)

\* An iteration for a name of IGNORE_FORMATS that matches no format of
\* NAME_FORMATS, with no time from the EXIF data.
IgnoredOnly(r) ==
  /\ RecognizedOf[r.name]
  /\ r.name \notin MatchingNames
  /\ r.kind = "no time"

\* C7 as stated: such an iteration prints nothing and logs nothing that any
\* logging level shows, and changes no file.
C7_Silent ==
  \A k \in DOMAIN trail :
    IgnoredOnly(trail[k]) =>
      /\ trail[k].out = << >>
      /\ ~trail[k].utime
      /\ \A loglevel \in LogLevels : Shown(trail[k].log, loglevel) = << >>

\* C7: such an iteration prints no report line, changes no file, and logs no
\* error or warning, so nothing at the default level or with --quiet; with
\* --verbose only the info records of the EXIF reader are shown, and there are
\* none when exifread is not installed.
C7_SilentButInfo ==
  \A k \in DOMAIN trail :
    LET r == trail[k]
    IN IgnoredOnly(r) =>
         /\ r.out = << >>
         /\ ~r.utime
         /\ Shown(r.log, "WARNING") = << >>
         /\ Shown(r.log, "CRITICAL") = << >>
         /\ \A j \in DOMAIN r.log : r.log[j].level = "INFO" /\ r.exif_called
         /\ ~exifread => r.log = << >>

\* With exifread installed, the iteration for HPIM1234.jpg has logged the info
\* record of the EXIF reader and nothing else, and has changed nothing.
C7_Witness ==
  /\ exifread /\ second = "none" /\ Len(trail) = 1
  /\ trail[1].path = N_ign /\ IgnoredOnly(trail[1])
  /\ Len(Shown(log, "INFO")) = 1 /\ Shown(log, "WARNING") = << >>
  /\ out = << >> /\ fs = fs0

\* C8: run on the same files with the list in another order, the program
\* reports a discrepancy for the same files and leaves every file with the
\* same date modified.
C8_OrderFree ==
  second = "reordered" /\ Ended =>
    /\ ReportedPaths(trail) = ReportedPaths(first.trail)
    /\ fs = first.fs

\* The time lies in [MIN_DATE, MAX_DATE].
InWindow(timestamp) ==
  ~Before(timestamp, Ts(MIN_DATE)) /\ ~Before(MAX_DATE(now), timestamp)

\* C9: a file reaches the comparison only with its time (from the name or the
\* EXIF data) and its own date modified both in [MIN_DATE, MAX_DATE]; every
\* time written lies in it; a file whose time or date modified is outside it
\* is skipped unchanged.
C9_Window ==
  \A k \in DOMAIN trail :
    LET r == trail[k]
    IN /\ k \in Evaluated => InWindow(r.title[1]) /\ InWindow(r.own[1])
       /\ r.utime => InWindow(r.title[1])
       /\ ((r.title # << >> /\ ~InWindow(r.title[1]))
           \/ (r.own # << >> /\ ~InWindow(r.own[1])))
          => (~r.utime /\ k \notin Evaluated)

=============================================================================
